---- MODULE Spec2Model ----
(***************************************************************************)
(* The two case studies of examples/plague.ipynb as one state machine.     *)
(*                                                                         *)
(*  - "The Freshman Plague": sweep_hand_washing and sweep_doses, which     *)
(*    compose a System from lever values, run the SIR simulation and       *)
(*    record the total infected fraction in a SweepSeries.                 *)
(*  - "Spider-Man": run_two_phase, range_func and maximize_scalar, which   *)
(*    integrate a two-phase swing and search for the best release time.    *)
(*                                                                         *)
(* Floating point numbers are fixed-point integers: fractions of the       *)
(* population in units of 1/PopScale, rates and logistic values in units   *)
(* of 1/FP.  Python objects live in `heap`; a variable that holds an       *)
(* object holds its index in `heap`, so that mutation in place and         *)
(* derivation of a new object are different things in the model.           *)
(***************************************************************************)
EXTENDS Integers, Sequences, FiniteSets, TLC

VARIABLES
    pc,         \* position of the running notebook code
    mode,       \* which entry point runs
    input,      \* the array handed to the sweep
    idx,        \* position of the for loop in `input`
    doses,      \* loop variable of sweep_doses
    fraction,   \* local of sweep_doses
    spending,   \* local of sweep_doses, loop variable of sweep_hand_washing
    beta,       \* notebook global
    gamma,      \* notebook global
    heap,       \* the objects made so far (System, Params)
    system,     \* reference to the System of the current iteration
    results,    \* the TimeFrame returned by run_simulation
    outcome,    \* value of calc_total_infected of the current iteration
    sweep,      \* the SweepSeries: a sequence of <<key, value>>
    stages,     \* history: the stages the current evaluation has passed
    applied,    \* history: the lever effects applied in the current evaluation
    params,     \* reference to the Params handed to range_func / maximize_scalar
    t_release,  \* argument of range_func and run_two_phase
    params1,    \* run_two_phase: reference to params.set(t_end=t_release)
    system1,    \* run_two_phase: reference to the phase 1 System
    system2,    \* run_two_phase: reference to the phase 2 System
    results1,   \* run_two_phase: TimeFrame of phase 1
    results2,   \* run_two_phase: TimeFrame of phase 2
    details2,   \* run_two_phase: what the solver said of phase 2 (never read)
    trajectory, \* what run_two_phase returned
    x_final,    \* what range_func returned
    bounds,     \* maximize_scalar: the bounds given
    bracket,    \* maximize_scalar: the current bracket <<lo, hi>>
    probe,      \* maximize_scalar: which evaluation is under way
    evals,      \* maximize_scalar: the evaluations made, in order
    res,        \* maximize_scalar: the result returned
    fn,         \* direct call: the function called last
    args,       \* direct call: its arguments
    value       \* direct call: what it returned

plagueVars == <<input, idx, doses, fraction, spending, beta, gamma,
                system, results, outcome, sweep, applied>>
twoPhaseVars == <<params1, system1, system2, results1, results2, details2, trajectory>>
optVars == <<bounds, bracket, probe, evals, res>>
spiderVars == <<params, t_release, x_final, twoPhaseVars, optVars>>

callVars == <<fn, args, value>>

vars == <<pc, mode, heap, stages, plagueVars, spiderVars, callVars>>

---------------------------------------------------------------------------
(* Bounds of the model *)

MaxLen == 3

(* Fixed-point scales *)
FP == 10^4
EScale == 10^3
PopScale == 90 * 100

(* Lever values the sweeps are tried on.  13 doses cost more than the      *)
(* budget, 100 doses are more than there are students; -100 is a negative  *)
(* campaign spending.                                                      *)
DoseValues == {0, 4, 12, 13, 100}
SpendingValues == {0, 450, 500, 1200, -100}

RECURSIVE SeqsUpTo(_, _)
SeqsUpTo(S, n) ==
    IF n = 0 THEN {<< >>}
    ELSE LET shorter == SeqsUpTo(S, n - 1)
         IN  shorter \cup {Append(q, v) : q \in {r \in shorter : Len(r) = n - 1}, v \in S}

NoValue == << >>

---------------------------------------------------------------------------
(* The Freshman Plague: notebook globals *)

tc == 3
tr == 4
beta0 == FP \div tc
gamma0 == FP \div tr

num_students == 90
budget == 1200
price_per_dose == 100
max_doses_plus_one == budget \div price_per_dose + 1
max_doses == budget \div price_per_dose

linrange(stop) == [j \in 1..(stop + 1) |-> j - 1]
dose_array == linrange(max_doses)

---------------------------------------------------------------------------
(* numpy.exp on hundredths: Exp1000(k) is e^(k/100) in units of 1/EScale,  *)
(* for 0 <= k < 700; Exp1(k) is e^(k/100) rounded down to an integer.      *)

RECURSIVE ExpInt(_)
ExpInt(n) == IF n = 0 THEN EScale ELSE (ExpInt(n - 1) * 2718) \div 1000

RECURSIVE ExpInt1(_)
ExpInt1(n) == IF n <= 7 THEN ExpInt(n) \div EScale ELSE (ExpInt1(n - 1) * 2718) \div 1000

ExpFrac(r) ==
    LET t1 == 10 * r
        t2 == (t1 * r) \div 200
        t3 == (t2 * r) \div 300
        t4 == (t3 * r) \div 400
    IN  EScale + t1 + t2 + t3 + t4

Exp1000(k) == (ExpInt(k \div 100) * ExpFrac(k % 100)) \div EScale

Exp1(k) ==
    IF k >= 1400 THEN ExpInt1(14)
    ELSE (ExpInt1(k \div 100) * ExpFrac(k % 100)) \div EScale

logistic_PositiveExponent(x, A, B100, C, M, K, Q) ==
    LET exponent == B100 * (x - M)
    IN  IF exponent >= 700
        THEN A + (K - A) \div (C + Q * Exp1(exponent))
        ELSE LET e == IF exponent >= 0 THEN Exp1000(exponent)
                      ELSE IF exponent <= -700 THEN 0
                      ELSE (EScale * EScale) \div Exp1000(-exponent)
                 denom == C * EScale + Q * e
             IN  A + ((K - A) * EScale) \div denom

(* logistic(x, A, B, C, M, K, Q, nu) for nu = 1.  A and K are in units of  *)
(* 1/FP, B100 is B in hundredths, the result is in units of 1/FP.          *)
logistic(x, A, B100, C, M, K, Q) ==
    LET exponent == -B100 * (x - M)
    IN  IF exponent >= 700
        THEN A + (K - A) \div (C + Q * Exp1(exponent))
        ELSE LET e == IF exponent >= 0 THEN Exp1000(exponent)
                      ELSE IF exponent <= -700 THEN 0
                      ELSE (EScale * EScale) \div Exp1000(-exponent)
                 denom == C * EScale + Q * e
             IN  A + ((K - A) * EScale) \div denom

compute_factor_NoMidpoint(x) == logistic(x, 0, 1, 1, 0, 2 * (FP \div 10), 1)

compute_factor(x) == logistic(x, 0, 1, 1, 500, 2 * (FP \div 10), 1)

---------------------------------------------------------------------------
(* chap11: make_system, update_func, run_simulation *)

chap11_make_system(b, g) ==
    [init |-> [s |-> (89 * PopScale) \div 90, i |-> PopScale \div 90, r |-> 0],
     t_end |-> 7 * 14, beta |-> b, gamma |-> g]

update_func(t, state, sys) ==
    LET infected == (((state.i * state.s) \div PopScale) * sys.beta) \div FP
        recovered == (sys.gamma * state.i) \div FP
    IN  [s |-> state.s - infected,
         i |-> state.i + infected - recovered,
         r |-> state.r + recovered]

RECURSIVE SimFrom(_, _, _)
SimFrom(frame, t, sys) ==
    IF t >= sys.t_end THEN frame
    ELSE LET nxt == Append(frame, update_func(t, frame[t + 1], sys))
         IN  IF Len(nxt) = t + 2 THEN SimFrom(nxt, t + 1, sys) ELSE nxt

run_simulation(sys) == SimFrom(<<sys.init>>, 0, sys)

---------------------------------------------------------------------------
(* The notebook's own functions *)

add_immunization_OfSusceptible(h, ref, fr) ==
    [h EXCEPT ![ref].init.s = @ - (fr * @) \div PopScale,
              ![ref].init.r = @ + (fr * h[ref].init.s) \div PopScale]

add_immunization(h, ref, fr) ==
    [h EXCEPT ![ref].init.s = @ - fr, ![ref].init.r = @ + fr]

add_hand_washing(h, ref, sp) ==
    LET factor == compute_factor(sp)
    IN  [h EXCEPT ![ref].beta = (@ * (FP - factor)) \div FP]

calc_total_infected_FromAll(frame, sys) ==
    LET s_end == frame[sys.t_end + 1].s
    IN  PopScale - s_end

calc_total_infected(frame, sys) ==
    LET s_0 == frame[1].s
        s_end == frame[sys.t_end + 1].s
    IN  s_0 - s_end

(* SweepSeries item assignment: an existing key keeps its place and gets   *)
(* the new value, a new key is appended.                                   *)
SeriesSet(sw, k, v) ==
    IF \E j \in 1..Len(sw) : sw[j][1] = k
    THEN [j \in 1..Len(sw) |-> IF sw[j][1] = k THEN <<k, v>> ELSE sw[j]]
    ELSE Append(sw, <<k, v>>)

Keys(sw) == [j \in 1..Len(sw) |-> sw[j][1]]

---------------------------------------------------------------------------
(* Spider-Man: Params, Vector helpers, make_system                          *)
(*                                                                         *)
(* Lengths are whole metres, velocities whole metres per second.  Times    *)
(* are in units of 1/TimeScale second, so that the equally spaced sample   *)
(* times of a run of whole seconds are whole numbers.  g and rho are the   *)
(* notebook's 9.8 and 1.2 rounded to whole numbers.                        *)

MaxRelease == 9
NumSamples == 5
TimeScale == NumSamples - 1

Heights == {381, 500, 1000}

ParamsOf(h) ==
    [height |-> h, g |-> 10, mass |-> 75, area |-> 1, rho |-> 1, v_term |-> 60,
     length |-> 100, angle |-> 270 - 45, k |-> 40, t_0 |-> 0, t_end |-> 30 * TimeScale]

BoundsSet == {<<6, 12>>, <<0, MaxRelease>>}

RECURSIVE SqrtBetween(_, _, _)
SqrtBetween(n, lo, hi) ==
    IF lo >= hi THEN lo
    ELSE LET mid == (lo + hi + 1) \div 2
         IN  IF mid * mid <= n THEN SqrtBetween(n, mid, hi) ELSE SqrtBetween(n, lo, mid - 1)

sqrt(n) == SqrtBetween(n, 0, 40000)

Vector(x, y) == [x |-> x, y |-> y]
vector_mag(V) == sqrt(V.x * V.x + V.y * V.y)
(* vector_hat(V) * m: the unit vector along V scaled to magnitude m; the   *)
(* zero vector is its own unit vector.                                     *)
vector_hat_times(V, m) ==
    IF vector_mag(V) = 0 THEN V
    ELSE Vector((V.x * m) \div vector_mag(V), (V.y * m) \div vector_mag(V))
vector_neg(V) == Vector(-V.x, -V.y)
vector_add(V, W) == Vector(V.x + W.x, V.y + W.y)
vector_div(V, d) == Vector(V.x \div d, V.y \div d)

(* cos and sin of the angles used, in thousandths *)
cos1000(deg) == CASE deg = 225 -> -707 [] deg = 270 -> 0 [] deg = 315 -> 707
sin1000(deg) == CASE deg = 225 -> -707 [] deg = 270 -> -1000 [] deg = 315 -> -707

pol2cart(deg, rho) == Vector((rho * cos1000(deg)) \div 1000, (rho * sin1000(deg)) \div 1000)

initial_condition(p) ==
    LET H == Vector(0, p.height)
        L == pol2cart(p.angle, p.length)
        P == vector_add(H, L)
    IN  [x |-> P.x, y |-> P.y, vx |-> 0, vy |-> 0]

make_system_NoFactorTwo(p) ==
    [height |-> p.height, g |-> p.g, mass |-> p.mass, area |-> p.area, rho |-> p.rho,
     v_term |-> p.v_term, length |-> p.length, angle |-> p.angle, k |-> p.k,
     t_0 |-> p.t_0, t_end |-> p.t_end,
     init |-> initial_condition(p),
     C_d |-> [num |-> p.mass * p.g, den |-> p.rho * p.area * p.v_term * p.v_term]]

(* C_d is kept as the fraction num/den the code divides out *)
make_system(p) ==
    [height |-> p.height, g |-> p.g, mass |-> p.mass, area |-> p.area, rho |-> p.rho,
     v_term |-> p.v_term, length |-> p.length, angle |-> p.angle, k |-> p.k,
     t_0 |-> p.t_0, t_end |-> p.t_end,
     init |-> initial_condition(p),
     C_d |-> [num |-> 2 * p.mass * p.g, den |-> p.rho * p.area * p.v_term * p.v_term]]

drag_force(V, sys) ==
    LET mag == (sys.rho * vector_mag(V) * vector_mag(V) * sys.C_d.num * sys.area)
                   \div (2 * sys.C_d.den)
    IN  vector_hat_times(vector_neg(V), mag)

spring_force_Compressive(L, sys) ==
    LET extension == vector_mag(L) - sys.length
        mag == sys.k * extension
    IN  vector_hat_times(vector_neg(L), mag)

spring_force(L, sys) ==
    LET extension == vector_mag(L) - sys.length
        mag == IF extension < 0 THEN 0 ELSE sys.k * extension
    IN  vector_hat_times(vector_neg(L), mag)

slope_func(t, state, sys) ==
    LET P == Vector(state.x, state.y)
        V == Vector(state.vx, state.vy)
        H == Vector(0, sys.height)
        L == vector_add(P, vector_neg(H))
        a_grav == Vector(0, -sys.g)
        a_spring == vector_div(spring_force(L, sys), sys.mass)
        a_drag == vector_div(drag_force(V, sys), sys.mass)
        A == vector_add(vector_add(a_grav, a_drag), a_spring)
    IN  [vx |-> V.x, vy |-> V.y, ax |-> A.x, ay |-> A.y]

event_func(t, state, sys) == state.y

(* Params.set / System.set: a copy with some fields overridden, as a new   *)
(* object; the object it is called on is left as it is.                    *)
set_t_end(h, ref, t) == Append(h, [h[ref] EXCEPT !.t_end = t])
set_phase2(h, ref, init, t0, tend, k) ==
    Append(h, [h[ref] EXCEPT !.init = init, !.t_0 = t0, !.t_end = tend, !.k = k])

---------------------------------------------------------------------------
(* run_solve_ivp: the solver takes steps of one second from t_0 until      *)
(* t_end, or until the event function changes sign, where it stops at the  *)
(* root (y = 0).  The result is NumSamples equally spaced samples of the   *)
(* dense output between t_0 and the time the solver stopped at.            *)

solver_step(state, sys) ==
    LET d == slope_func(0, state, sys)
        vx == state.vx + d.ax
        vy == state.vy + d.ay
    IN  [x |-> state.x + vx, y |-> state.y + vy, vx |-> vx, vy |-> vy]

crosses(y0, y1) == (y0 > 0 /\ y1 <= 0) \/ (y0 < 0 /\ y1 >= 0)

RECURSIVE solve(_, _, _, _)
solve(steps, left, sys, events) ==
    IF left = 0 THEN [steps |-> steps, status |-> "t_end"]
    ELSE LET cur == steps[Len(steps)]
             nxt == solver_step(cur, sys)
         IN  IF events /\ crosses(event_func(0, cur, sys), event_func(0, nxt, sys))
             THEN [steps |-> Append(steps, [nxt EXCEPT !.y = 0]), status |-> "event"]
             ELSE solve(Append(steps, nxt), left - 1, sys, events)

interpolate(a, b, r) == a + ((b - a) * r) \div TimeScale

dense(steps, pos) ==
    LET q == pos \div TimeScale
        r == pos % TimeScale
        a == steps[q + 1]
        b == IF r = 0 THEN a ELSE steps[q + 2]
    IN  [x |-> interpolate(a.x, b.x, r), y |-> interpolate(a.y, b.y, r),
         vx |-> interpolate(a.vx, b.vx, r), vy |-> interpolate(a.vy, b.vy, r)]

run_solve_ivp(sys, events) ==
    LET sol == solve(<<sys.init>>, (sys.t_end - sys.t_0) \div TimeScale, sys, events)
        n == Len(sol.steps) - 1
    IN  [results |-> [j \in 1..NumSamples |->
                         [t |-> sys.t_0 + (j - 1) * n,
                          state |-> dense(sol.steps, (j - 1) * n)]],
         details |-> [status |-> sol.status]]

index(frame) == [j \in 1..Len(frame) |-> frame[j].t]
iloc_last(frame) == frame[Len(frame)].state
concat(f1, f2) == f1 \o f2

(* maximize_scalar: a bounded search without derivatives, on whole         *)
(* seconds.  While the bracket is at least 3 wide it evaluates the two     *)
(* points a third in from each end and keeps the side of the larger        *)
(* value; it ends with the middle of the bracket.                          *)
third(b) == (b[2] - b[1]) \div 3
probe_point_Overshoot(b, which) ==
    CASE which = "test" -> b[1]
      [] which = "left" -> b[1] + third(b)
      [] which = "right" -> b[2] + third(b)
      [] which = "middle" -> (b[1] + b[2]) \div 2

probe_point(b, which) ==
    CASE which = "test" -> b[1]
      [] which = "left" -> b[1] + third(b)
      [] which = "right" -> b[2] - third(b)
      [] which = "middle" -> (b[1] + b[2]) \div 2

best_of(ev) ==
    CHOOSE e \in {ev[j] : j \in 2..Len(ev)} :
        \A j \in 2..Len(ev) : ev[j].value <= e.value

---------------------------------------------------------------------------
NoTwoPhase ==
    /\ params1 = NoValue
    /\ system1 = NoValue
    /\ system2 = NoValue
    /\ results1 = NoValue
    /\ results2 = NoValue
    /\ details2 = NoValue
    /\ trajectory = NoValue

InitPlague ==
    /\ \/ /\ mode = "sweep_doses"
          /\ input \in SeqsUpTo(DoseValues, MaxLen) \cup {dose_array}
       \/ /\ mode = "sweep_hand_washing"
          /\ input \in SeqsUpTo(SpendingValues, MaxLen)
    /\ pc = "for"
    /\ heap = << >>
    /\ params = NoValue
    /\ t_release = 0
    /\ bounds = NoValue

InitSpider ==
    /\ input = << >>
    /\ \E h \in Heights : heap = <<ParamsOf(h)>>
    /\ params = 1
    /\ \/ /\ mode = "range_func"
          /\ t_release \in {n * TimeScale : n \in 0..MaxRelease}
          /\ bounds = NoValue
       \/ /\ mode = "maximize_scalar"
          /\ t_release = 0
          /\ bounds \in BoundsSet
    /\ pc = mode

NoCall ==
    /\ fn = "none"
    /\ args = << >>
    /\ value = NoValue

InitLocals ==
    /\ idx = 1
    /\ doses = 0
    /\ fraction = 0
    /\ spending = 0
    /\ beta = beta0
    /\ gamma = gamma0
    /\ system = NoValue
    /\ results = NoValue
    /\ outcome = 0
    /\ sweep = << >>
    /\ stages = << >>
    /\ applied = << >>
    /\ NoTwoPhase
    /\ x_final = 0
    /\ bracket = NoValue
    /\ probe = "none"
    /\ evals = << >>
    /\ res = NoValue

Init ==
    /\ InitPlague \/ InitSpider
    /\ InitLocals
    /\ NoCall

(* for ... in ...: bind the loop variable, or leave the loop *)
ForNext ==
    /\ pc = "for"
    /\ idx <= Len(input)
    /\ IF mode = "sweep_doses"
       THEN /\ doses' = input[idx]
            /\ fraction' = (input[idx] * PopScale) \div num_students
            /\ spending' = budget - input[idx] * price_per_dose
       ELSE /\ spending' = input[idx]
            /\ UNCHANGED <<doses, fraction>>
    /\ pc' = "make_system"
    /\ stages' = << >>
    /\ applied' = << >>
    /\ UNCHANGED <<mode, heap, input, idx, beta, gamma, system, results, outcome,
                   sweep, spiderVars>>
    /\ UNCHANGED callVars

(* return sweep *)
ForEnd ==
    /\ pc = "for"
    /\ idx > Len(input)
    /\ pc' = "done"
    /\ UNCHANGED <<mode, heap, stages, plagueVars, spiderVars>>
    /\ UNCHANGED callVars

MakeSystem_Hoisted ==
    /\ pc = "make_system"
    /\ IF idx = 1
       THEN /\ heap' = Append(heap, chap11_make_system(beta, gamma))
            /\ system' = Len(heap) + 1
       ELSE UNCHANGED <<heap, system>>
    /\ pc' = IF mode = "sweep_doses" THEN "add_immunization" ELSE "add_hand_washing"
    /\ UNCHANGED <<mode, stages, input, idx, doses, fraction, spending, beta, gamma,
                   results, outcome, sweep, applied, spiderVars>>
    /\ UNCHANGED callVars

MakeSystem_SkipImmunization ==
    /\ pc = "make_system"
    /\ heap' = Append(heap, chap11_make_system(beta, gamma))
    /\ system' = Len(heap) + 1
    /\ pc' = "add_hand_washing"
    /\ UNCHANGED <<mode, stages, input, idx, doses, fraction, spending, beta, gamma,
                   results, outcome, sweep, applied, spiderVars>>
    /\ UNCHANGED callVars

(* system = make_system(beta, gamma) *)
MakeSystem ==
    /\ pc = "make_system"
    /\ heap' = Append(heap, chap11_make_system(beta, gamma))
    /\ system' = Len(heap) + 1
    /\ pc' = IF mode = "sweep_doses" THEN "add_immunization" ELSE "add_hand_washing"
    /\ UNCHANGED <<mode, stages, input, idx, doses, fraction, spending, beta, gamma,
                   results, outcome, sweep, applied, spiderVars>>
    /\ UNCHANGED callVars

(* add_immunization(system, fraction) *)
AddImmunization ==
    /\ pc = "add_immunization"
    /\ heap' = add_immunization(heap, system, fraction)
    /\ applied' = Append(applied, "immunization")
    /\ pc' = "add_hand_washing"
    /\ UNCHANGED <<mode, stages, input, idx, doses, fraction, spending, beta, gamma,
                   system, results, outcome, sweep, spiderVars>>
    /\ UNCHANGED callVars

AddHandWashing_Global ==
    /\ pc = "add_hand_washing"
    /\ beta' = (beta * (FP - compute_factor(spending))) \div FP
    /\ heap' = [heap EXCEPT ![system].beta = beta']
    /\ applied' = Append(applied, "hand_washing")
    /\ stages' = Append(stages, "Composed")
    /\ pc' = "run_simulation"
    /\ UNCHANGED <<mode, input, idx, doses, fraction, spending, gamma,
                   system, results, outcome, sweep, spiderVars>>
    /\ UNCHANGED callVars

(* add_hand_washing(system, spending) *)
AddHandWashing ==
    /\ pc = "add_hand_washing"
    /\ heap' = add_hand_washing(heap, system, spending)
    /\ applied' = Append(applied, "hand_washing")
    /\ stages' = Append(stages, "Composed")
    /\ pc' = "run_simulation"
    /\ UNCHANGED <<mode, input, idx, doses, fraction, spending, beta, gamma,
                   system, results, outcome, sweep, spiderVars>>
    /\ UNCHANGED callVars

(* results = run_simulation(system, update_func) *)
RunSimulation ==
    /\ pc = "run_simulation"
    /\ results' = run_simulation(heap[system])
    /\ applied' = Append(applied, "run_simulation")
    /\ stages' = Append(stages, "Integrated")
    /\ pc' = "calc_total_infected"
    /\ UNCHANGED <<mode, heap, input, idx, doses, fraction, spending, beta, gamma,
                   system, outcome, sweep, spiderVars>>
    /\ UNCHANGED callVars

(* calc_total_infected(results, system) *)
CalcTotalInfected ==
    /\ pc = "calc_total_infected"
    /\ outcome' = calc_total_infected(results, heap[system])
    /\ stages' = Append(stages, "Extracted")
    /\ pc' = "record"
    /\ UNCHANGED <<mode, heap, input, idx, doses, fraction, spending, beta, gamma,
                   system, results, sweep, applied, spiderVars>>
    /\ UNCHANGED callVars

Record_ByPosition ==
    /\ pc = "record"
    /\ sweep' = SeriesSet(sweep, idx, outcome)
    /\ stages' = Append(stages, "Recorded")
    /\ idx' = idx + 1
    /\ pc' = "for"
    /\ UNCHANGED <<mode, heap, input, doses, fraction, spending, beta, gamma,
                   system, results, outcome, applied, spiderVars>>
    /\ UNCHANGED callVars

Record_Sorted ==
    /\ pc = "record"
    /\ LET k == IF mode = "sweep_doses" THEN doses ELSE spending
           smaller == SelectSeq(sweep, LAMBDA e : e[1] < k)
           larger == SelectSeq(sweep, LAMBDA e : e[1] > k)
       IN  sweep' = smaller \o <<<<k, outcome>>>> \o larger
    /\ stages' = Append(stages, "Recorded")
    /\ idx' = idx + 1
    /\ pc' = "for"
    /\ UNCHANGED <<mode, heap, input, doses, fraction, spending, beta, gamma,
                   system, results, outcome, applied, spiderVars>>
    /\ UNCHANGED callVars

(* sweep[doses] = ... / sweep[spending] = ... *)
Record ==
    /\ pc = "record"
    /\ sweep' = SeriesSet(sweep, IF mode = "sweep_doses" THEN doses ELSE spending, outcome)
    /\ stages' = Append(stages, "Recorded")
    /\ idx' = idx + 1
    /\ pc' = "for"
    /\ UNCHANGED <<mode, heap, input, doses, fraction, spending, beta, gamma,
                   system, results, outcome, applied, spiderVars>>
    /\ UNCHANGED callVars

(* range_func: results = run_two_phase(t_release, params) *)
RangeFunc ==
    /\ pc = "range_func"
    /\ params1' = NoValue
    /\ system1' = NoValue
    /\ system2' = NoValue
    /\ results1' = NoValue
    /\ results2' = NoValue
    /\ details2' = NoValue
    /\ trajectory' = NoValue
    /\ stages' = << >>
    /\ pc' = "params_set"
    /\ UNCHANGED <<mode, heap, plagueVars, params, t_release, x_final, optVars>>
    /\ UNCHANGED callVars

(* run_two_phase: params1 = params.set(t_end=t_release) *)
ParamsSet ==
    /\ pc = "params_set"
    /\ heap' = set_t_end(heap, params, t_release)
    /\ params1' = Len(heap) + 1
    /\ pc' = "make_system1"
    /\ UNCHANGED <<mode, stages, plagueVars, params, t_release, x_final, optVars,
                   system1, system2, results1, results2, details2, trajectory>>
    /\ UNCHANGED callVars

(* system1 = make_system(params1) *)
MakeSystem1 ==
    /\ pc = "make_system1"
    /\ heap' = Append(heap, make_system(heap[params1]))
    /\ system1' = Len(heap) + 1
    /\ stages' = Append(stages, "Composed")
    /\ pc' = "run_phase1"
    /\ UNCHANGED <<mode, plagueVars, params, t_release, x_final, optVars,
                   params1, system2, results1, results2, details2, trajectory>>
    /\ UNCHANGED callVars

(* results1, details1 = run_solve_ivp(system1, slope_func) *)
RunPhase1 ==
    /\ pc = "run_phase1"
    /\ results1' = run_solve_ivp(heap[system1], FALSE).results
    /\ pc' = "system_set"
    /\ UNCHANGED <<mode, heap, stages, plagueVars, params, t_release, x_final, optVars,
                   params1, system1, system2, results2, details2, trajectory>>
    /\ UNCHANGED callVars

SystemSet_KeepsSpring ==
    /\ pc = "system_set"
    /\ LET t_0 == index(results1)[Len(results1)]
           t_end == t_0 + 10 * TimeScale
           init == iloc_last(results1)
       IN  heap' = set_phase2(heap, system1, init, t_0, t_end, heap[system1].k)
    /\ system2' = Len(heap) + 1
    /\ pc' = "run_phase2"
    /\ UNCHANGED <<mode, stages, plagueVars, params, t_release, x_final, optVars,
                   params1, system1, results1, results2, details2, trajectory>>
    /\ UNCHANGED callVars

SystemSet_FirstIndex ==
    /\ pc = "system_set"
    /\ LET t_0 == index(results1)[1]
           t_end == t_0 + 10 * TimeScale
           init == iloc_last(results1)
       IN  heap' = set_phase2(heap, system1, init, t_0, t_end, 0)
    /\ system2' = Len(heap) + 1
    /\ pc' = "run_phase2"
    /\ UNCHANGED <<mode, stages, plagueVars, params, t_release, x_final, optVars,
                   params1, system1, results1, results2, details2, trajectory>>
    /\ UNCHANGED callVars

(* t_0, t_end, init; system2 = system1.set(init=init, t_0=t_0, t_end=t_end, k=0) *)
SystemSet ==
    /\ pc = "system_set"
    /\ LET t_0 == index(results1)[Len(results1)]
           t_end == t_0 + 10 * TimeScale
           init == iloc_last(results1)
       IN  heap' = set_phase2(heap, system1, init, t_0, t_end, 0)
    /\ system2' = Len(heap) + 1
    /\ pc' = "run_phase2"
    /\ UNCHANGED <<mode, stages, plagueVars, params, t_release, x_final, optVars,
                   params1, system1, results1, results2, details2, trajectory>>
    /\ UNCHANGED callVars

RunPhase2_NoEvents ==
    /\ pc = "run_phase2"
    /\ LET run == run_solve_ivp(heap[system2], FALSE)
       IN  /\ results2' = run.results
           /\ details2' = run.details
    /\ pc' = "concat"
    /\ UNCHANGED <<mode, heap, stages, plagueVars, params, t_release, x_final, optVars,
                   params1, system1, system2, results1, trajectory>>
    /\ UNCHANGED callVars

(* results2, details2 = run_solve_ivp(system2, slope_func, events=event_func) *)
RunPhase2 ==
    /\ pc = "run_phase2"
    /\ LET run == run_solve_ivp(heap[system2], TRUE)
       IN  /\ results2' = run.results
           /\ details2' = run.details
    /\ pc' = "concat"
    /\ UNCHANGED <<mode, heap, stages, plagueVars, params, t_release, x_final, optVars,
                   params1, system1, system2, results1, trajectory>>
    /\ UNCHANGED callVars

(* return pd.concat([results1, results2]) *)
Concat ==
    /\ pc = "concat"
    /\ trajectory' = concat(results1, results2)
    /\ stages' = Append(stages, "Integrated")
    /\ pc' = "x_final"
    /\ UNCHANGED <<mode, heap, plagueVars, params, t_release, x_final, optVars,
                   params1, system1, system2, results1, results2, details2>>
    /\ UNCHANGED callVars

(* range_func: x_final = results.iloc[-1].x *)
XFinal ==
    /\ pc = "x_final"
    /\ x_final' = iloc_last(trajectory).x
    /\ stages' = Append(stages, "Extracted")
    /\ pc' = "return"
    /\ UNCHANGED <<mode, heap, plagueVars, params, t_release, twoPhaseVars, optVars>>
    /\ UNCHANGED callVars

(* range_func: print(t_release, x_final); return x_final *)
Return ==
    /\ pc = "return"
    /\ IF mode = "range_func"
       THEN /\ pc' = "done"
            /\ stages' = Append(stages, "Recorded")
       ELSE /\ pc' = "opt_record"
            /\ UNCHANGED stages
    /\ UNCHANGED <<mode, heap, plagueVars, spiderVars>>
    /\ UNCHANGED callVars

(* maximize_scalar: the function is first tried at the lower bound *)
MaximizeScalar ==
    /\ pc = "maximize_scalar"
    /\ bracket' = bounds
    /\ probe' = "test"
    /\ t_release' = probe_point(bounds, "test") * TimeScale
    /\ pc' = "range_func"
    /\ UNCHANGED <<mode, heap, stages, plagueVars, params, x_final, twoPhaseVars,
                   bounds, evals, res>>
    /\ UNCHANGED callVars

(* maximize_scalar: take the value of the evaluation, then narrow the      *)
(* bracket and evaluate again, or return the best point found              *)
OptRecord ==
    /\ pc = "opt_record"
    /\ evals' = Append(evals, [t |-> t_release, value |-> x_final, probe |-> probe,
                               landed |-> details2.status = "event"])
    /\ stages' = Append(stages, "Recorded")
    /\ bracket' =
          IF probe = "right"
          THEN IF evals[Len(evals)].value < x_final
               THEN <<probe_point(bracket, "left"), bracket[2]>>
               ELSE <<bracket[1], probe_point(bracket, "right")>>
          ELSE bracket
    /\ probe' =
          CASE probe = "left" -> "right"
            [] probe = "middle" -> "none"
            [] OTHER -> IF bracket'[2] - bracket'[1] >= 3 THEN "left" ELSE "middle"
    /\ IF probe = "middle"
       THEN /\ res' = best_of(evals')
            /\ pc' = "done"
            /\ UNCHANGED t_release
       ELSE /\ t_release' = probe_point(bracket', probe') * TimeScale
            /\ pc' = "range_func"
            /\ UNCHANGED res
    /\ UNCHANGED <<mode, heap, plagueVars, params, x_final, twoPhaseVars, bounds>>
    /\ UNCHANGED callVars



Next ==
    \/ ForNext
    \/ ForEnd
    \/ MakeSystem
    \/ AddImmunization
    \/ AddHandWashing
    \/ RunSimulation
    \/ CalcTotalInfected
    \/ Record
    \/ RangeFunc
    \/ ParamsSet
    \/ MakeSystem1
    \/ RunPhase1
    \/ SystemSet
    \/ RunPhase2
    \/ Concat
    \/ XFinal
    \/ Return
    \/ MaximizeScalar
    \/ OptRecord

Spec == Init /\ [][Next]_vars

---------------------------------------------------------------------------
(* The notebook's functions called directly on arguments drawn from       *)
(* grids.  compute_factor and add_hand_washing are called again and again  *)
(* with other spendings, the force functions once.                         *)

MaxSpendingSteps == 60
SpendingStep == 25
SpendingGrid == {j * SpendingStep : j \in 0..MaxSpendingSteps}

Coords == {-150, -100, -60, 0, 60, 80, 100, 150}
SpringConstants == {0, 40}

(* velocities of magnitude 5, scaled to v_term and to twice v_term *)
Directions == {<<0, -5>>, <<5, 0>>, <<-3, -4>>, <<4, -3>>, <<3, 4>>}
DragParams ==
    {[ParamsOf(381) EXCEPT !.mass = m, !.g = g, !.rho = rho, !.area = a, !.v_term = v] :
        m \in {75, 80}, g \in {9, 10}, rho \in {1, 2}, a \in {1, 2}, v \in {5, 60}}

InitCalls ==
    /\ mode = "call"
    /\ pc = "call"
    /\ input = << >>
    /\ heap = << >>
    /\ params = NoValue
    /\ t_release = 0
    /\ bounds = NoValue
    /\ InitLocals
    /\ NoCall

(* compute_factor(spending) *)
CallComputeFactor ==
    /\ pc = "call"
    /\ fn \in {"none", "compute_factor"}
    /\ \E x \in SpendingGrid :
          /\ args' = <<x>>
          /\ value' = compute_factor(x)
    /\ fn' = "compute_factor"
    /\ UNCHANGED <<pc, mode, heap, stages, plagueVars, spiderVars>>

(* system = make_system(beta, gamma); add_hand_washing(system, spending) *)
CallAddHandWashing ==
    /\ pc = "call"
    /\ fn \in {"none", "add_hand_washing"}
    /\ \E x \in SpendingGrid :
          /\ args' = <<1, x>>
          /\ heap' = add_hand_washing(<<chap11_make_system(beta, gamma)>>, 1, x)
    /\ fn' = "add_hand_washing"
    /\ value' = NoValue
    /\ UNCHANGED <<pc, mode, stages, plagueVars, spiderVars>>

(* system = make_system(beta, gamma); add_immunization(system, fraction) *)
CallAddImmunization ==
    /\ pc = "call"
    /\ fn = "none"
    /\ \E d \in 0..num_students :
          LET f == (d * PopScale) \div num_students
          IN  /\ args' = <<1, f>>
              /\ heap' = add_immunization(<<chap11_make_system(beta, gamma)>>, 1, f)
    /\ fn' = "add_immunization"
    /\ value' = NoValue
    /\ UNCHANGED <<pc, mode, stages, plagueVars, spiderVars>>

(* spring_force(L, system) *)
CallSpringForce ==
    /\ pc = "call"
    /\ fn = "none"
    /\ \E x \in Coords, y \in Coords, k \in SpringConstants :
          LET sys == make_system([ParamsOf(381) EXCEPT !.k = k])
          IN  /\ args' = <<Vector(x, y), sys>>
              /\ value' = spring_force(Vector(x, y), sys)
    /\ fn' = "spring_force"
    /\ UNCHANGED <<pc, mode, heap, stages, plagueVars, spiderVars>>

(* drag_force(V, make_system(params)) *)
CallDragForce ==
    /\ pc = "call"
    /\ fn = "none"
    /\ \E p \in DragParams, d \in Directions, n \in {1, 2} :
          LET scale == n * (p.v_term \div 5)
              V == Vector(d[1] * scale, d[2] * scale)
          IN  /\ args' = <<V, make_system(p)>>
              /\ value' = drag_force(V, make_system(p))
    /\ fn' = "drag_force"
    /\ UNCHANGED <<pc, mode, heap, stages, plagueVars, spiderVars>>

NextCalls ==
    \/ CallComputeFactor
    \/ CallAddHandWashing
    \/ CallAddImmunization
    \/ CallSpringForce
    \/ CallDragForce

SpecCalls == InitCalls /\ [][NextCalls]_vars

---------------------------------------------------------------------------
(* Properties *)

Sweeping == mode \in {"sweep_doses", "sweep_hand_washing"}

IsPrefix(p, q) == Len(p) <= Len(q) /\ \A j \in 1..Len(p) : p[j] = q[j]

(* the values of q in the order of their first occurrence *)
RECURSIVE FirstOccurrences(_)
FirstOccurrences(q) ==
    IF q = << >> THEN << >>
    ELSE LET front == FirstOccurrences(SubSeq(q, 1, Len(q) - 1))
             last == q[Len(q)]
         IN  IF \E j \in 1..Len(front) : front[j] = last THEN front ELSE Append(front, last)

(* The outcome of lever value v alone: composed from the base parameters,  *)
(* simulated and extracted, with nothing before it.                        *)
OutcomeAlone(m, v) ==
    LET made == <<chap11_make_system(beta0, gamma0)>>
        immunized == IF m = "sweep_doses"
                     THEN add_immunization(made, 1, (v * PopScale) \div num_students)
                     ELSE made
        washed == add_hand_washing(immunized, 1,
                      IF m = "sweep_doses" THEN budget - v * price_per_dose ELSE v)
    IN  calc_total_infected(run_simulation(washed[1]), washed[1])

(* C1: in a grid sweep the outcome recorded for a lever value depends only *)
(* on that value and the base parameters: whatever the input sequence and  *)
(* whatever was evaluated before, every entry of the sweep holds the       *)
(* outcome that its lever value gives when it is evaluated alone.          *)
C1_OutcomeDependsOnlyOnLever ==
    (Sweeping /\ pc \in {"for", "done"}) =>
        \A j \in 1..Len(sweep) : sweep[j][2] = OutcomeAlone(mode, sweep[j][1])

(* a sweep has ended that evaluated a larger value before a smaller one    *)
(* and one value twice                                                     *)
C1_Witness ==
    /\ Sweeping
    /\ pc = "done"
    /\ Len(sweep) >= 2
    /\ sweep[1][1] > sweep[2][1]
    /\ Len(input) > Len(sweep)

(* C2, as specified: no operation changes a bundle that exists; every lever   *)
(* or derivation leaves the objects made so far as they are.               *)
C2_NeverMutatedInPlace ==
    [][\A r \in 1..Len(heap) : heap'[r] = heap[r]]_vars

(* C2 amended: Params.set and System.set leave the bundle they are called  *)
(* on unchanged and return a new one; add_immunization and                 *)
(* add_hand_washing change the System they are given in place.  The only  *)
(* bundle ever changed is the System made by make_system in the same       *)
(* sweep iteration, and the notebook's beta and gamma never change.        *)
C2_OnlyFreshSystemMutated ==
    [][/\ beta' = beta
       /\ gamma' = gamma
       /\ \A r \in 1..Len(heap) :
             heap'[r] # heap[r] =>
                 /\ pc \in {"add_immunization", "add_hand_washing"}
                 /\ r = system
                 /\ r = Len(heap)]_vars

(* the second System of a sweep has had both levers applied in place       *)
C2_Witness ==
    /\ mode = "sweep_doses"
    /\ pc = "run_simulation"
    /\ Len(heap) >= 2
    /\ heap[system].beta < beta
    /\ heap[system].init.s < chap11_make_system(beta, gamma).init.s

LeverValid(m, v) ==
    IF m = "sweep_doses"
    THEN budget - v * price_per_dose >= 0 /\ v <= num_students /\ v >= 0
    ELSE v >= 0

CurrentLever == IF mode = "sweep_doses" THEN doses ELSE spending

(* C3: composing a scenario fails with InvalidLever when a lever value is  *)
(* outside its domain, before any simulation is run: no evaluation with a  *)
(* negative spending or with more doses than students gets as far as       *)
(* run_simulation, and none is recorded.                                   *)
C3_InvalidLeverRejected ==
    Sweeping =>
        /\ pc \in {"run_simulation", "calc_total_infected", "record"}
              => LeverValid(mode, CurrentLever)
        /\ \A j \in 1..Len(sweep) : LeverValid(mode, sweep[j][1])

(* C4: range_func fails with MissingEvent when the ground-contact event    *)
(* does not fire within phase 2; it never returns the x of a final sample  *)
(* that is still above the ground.                                         *)
C4_NoRangeWithoutLanding ==
    pc = "return" => /\ details2.status = "event"
                     /\ iloc_last(trajectory).y <= 0

Times(frame) == index(frame)

(* C5, as specified: the trajectory returned by run_two_phase is strictly     *)
(* increasing in time, also at the splice.                                 *)
C5_StrictlyIncreasingTimes ==
    trajectory # NoValue =>
        \A j \in 1..(Len(trajectory) - 1) : Times(trajectory)[j] < Times(trajectory)[j + 1]

(* C5 amended: the trajectory returned by run_two_phase is non-decreasing  *)
(* in time.  The first sample of phase 2 repeats the time and the state of *)
(* the last sample of phase 1; when t_release is after params.t_0 that is  *)
(* the only place where two samples have the same time.                    *)
C5_NonDecreasingWithRepeatedSplice ==
    trajectory # NoValue =>
        LET T == Times(trajectory)
            n == Len(results1)
        IN  /\ \A j \in 1..(Len(T) - 1) : T[j] <= T[j + 1]
            /\ T[n] = T[n + 1]
            /\ trajectory[n].state = trajectory[n + 1].state
            /\ \A j \in 1..(Len(T) - 1) :
                  (j # n /\ heap[params1].t_end > heap[params].t_0) => T[j] < T[j + 1]

(* a two-phase run released after the start has been spliced *)
C5_Witness ==
    /\ pc = "x_final"
    /\ heap[params1].t_end > heap[params].t_0
    /\ Len(trajectory) = 2 * NumSamples

(* C6: the SweepSeries has unique keys, in the order in which the lever    *)
(* values first occur in the input (not sorted); for an input without      *)
(* repeated values it has one entry per value, in input order.             *)
C6_KeysInInputOrder ==
    Sweeping =>
        /\ Keys(sweep) = FirstOccurrences(SubSeq(input, 1, idx - 1))
        /\ \A j, l \in 1..Len(sweep) : sweep[j][1] = sweep[l][1] => j = l
        /\ (pc = "done" /\ FirstOccurrences(input) = input) => Keys(sweep) = input

(* a sweep of three different values that are not in ascending order *)
C6_Witness ==
    /\ Sweeping
    /\ pc = "done"
    /\ Len(sweep) = 3
    /\ \E j \in 1..2 : sweep[j][1] > sweep[j + 1][1]

(* C7: with budget 1200 and price_per_dose 100 the dose sweep evaluates    *)
(* exactly the 13 dose counts 0..12 and returns 13 entries, and in every   *)
(* evaluation doses * price_per_dose + spending = budget with              *)
(* spending = 1200 - doses * 100 >= 0.                                     *)
C7_BudgetReduction ==
    (mode = "sweep_doses" /\ input = dose_array) =>
        /\ input = [j \in 1..13 |-> j - 1]
        /\ pc \notin {"for", "done"} =>
              /\ doses * price_per_dose + spending = budget
              /\ spending = 1200 - doses * 100
              /\ spending >= 0
        /\ pc = "done" => Keys(sweep) = [j \in 1..13 |-> j - 1]

(* the sweep of dose_array has ended *)
C7_Witness ==
    /\ mode = "sweep_doses"
    /\ input = dose_array
    /\ pc = "done"
    /\ Len(sweep) = 13

AllStages == <<"Composed", "Integrated", "Extracted", "Recorded">>

(* an evaluation that the specification counts as failed: a lever outside  *)
(* its domain, or a two-phase run whose ground-contact event never fired   *)
EvaluationFailed ==
    \/ Sweeping /\ pc \notin {"for", "done", "make_system"}
                /\ ~LeverValid(mode, CurrentLever)
    \/ ~Sweeping /\ details2 # NoValue /\ details2.status # "event"

(* the stages of one evaluation come in the order Composed, Integrated,    *)
(* Extracted, Recorded, each at most once                                  *)
StagesLinear == IsPrefix(stages, AllStages)

(* C8: an evaluation passes Composed, Integrated, Extracted, Recorded in   *)
(* that order, each at most once, and an evaluation that fails is aborted: *)
(* it is not extracted and no outcome is recorded for it.                  *)
C8_LinearStagesAbortOnFailure ==
    /\ StagesLinear
    /\ EvaluationFailed => Len(stages) <= 2

(* C9: in sweep_doses the immunization lever is applied before the         *)
(* campaign-spending lever, and both before the simulation is run: when    *)
(* add_hand_washing is about to run, the System has its susceptible        *)
(* fraction reduced and beta untouched; when run_simulation is about to    *)
(* run, beta is reduced as well.                                           *)
C9_ImmunizationBeforeHandWashing ==
    mode = "sweep_doses" =>
        LET fresh == chap11_make_system(beta, gamma)
            reduced == (beta * (FP - compute_factor(spending))) \div FP
        IN  /\ IsPrefix(applied, <<"immunization", "hand_washing", "run_simulation">>)
            /\ pc = "add_hand_washing" =>
                  /\ heap[system].init.s = fresh.init.s - fraction
                  /\ heap[system].init.r = fresh.init.r + fraction
                  /\ heap[system].beta = beta
            /\ pc = "run_simulation" =>
                  /\ heap[system].init.s = fresh.init.s - fraction
                  /\ heap[system].beta = reduced
            /\ pc \in {"calc_total_infected", "record"} =>
                  applied = <<"immunization", "hand_washing", "run_simulation">>

(* both levers with an effect have been applied and the simulation is next *)
C9_Witness ==
    /\ mode = "sweep_doses"
    /\ pc = "run_simulation"
    /\ fraction > 0
    /\ heap[system].beta < beta
    /\ applied = <<"immunization", "hand_washing">>

(* C10: when an evaluation of range_func fails during maximize_scalar (the *)
(* object never lands), the search is aborted there: the failed            *)
(* evaluation gives no value to the optimizer and no evaluation follows.   *)
C10_SearchAbortsOnFailure ==
    mode = "maximize_scalar" => \A j \in 1..Len(evals) : evals[j].landed

(* The range of a release at time t alone: both phases run from the given  *)
(* Params, with nothing before it.                                         *)
RangeAlone(t, p) ==
    LET sys1 == make_system([p EXCEPT !.t_end = t])
        res1 == run_solve_ivp(sys1, FALSE).results
        t_0 == index(res1)[Len(res1)]
        sys2 == [sys1 EXCEPT !.init = iloc_last(res1), !.t_0 = t_0,
                             !.t_end = t_0 + 10 * TimeScale, !.k = 0]
    IN  iloc_last(run_solve_ivp(sys2, TRUE).results).x

InBounds(t) == bounds[1] * TimeScale <= t /\ t <= bounds[2] * TimeScale

(* the most evaluations a search over bounds b makes: the test at the      *)
(* lower bound, two for every narrowing of the bracket, and the middle     *)
MaxEvaluations(b) == 2 * (b[2] - b[1]) + 2

(* C11: maximize_scalar over [lo, hi] makes a bounded number of            *)
(* evaluations, one at a time, every one at a release time inside          *)
(* [lo, hi]; when it has ended it returns a release time inside [lo, hi]   *)
(* that it has evaluated, whose range is the largest of the search and is  *)
(* not smaller than the range of the release times one second earlier and *)
(* later inside the last bracket.                                          *)
C11_BoundedSearchInsideBounds ==
    mode = "maximize_scalar" =>
        /\ Len(evals) <= MaxEvaluations(bounds)
        /\ \A j \in 1..Len(evals) : InBounds(evals[j].t)
        /\ pc \notin {"maximize_scalar", "done"} => InBounds(t_release)
        /\ pc = "done" =>
              /\ InBounds(res.t)
              /\ \E j \in 1..Len(evals) : evals[j] = res
              /\ \A j \in 2..Len(evals) : evals[j].value <= res.value
              /\ res.value = RangeAlone(res.t, heap[params])
              /\ \A d \in {-TimeScale, TimeScale} :
                    (bracket[1] * TimeScale <= res.t + d /\ res.t + d <= bracket[2] * TimeScale)
                        => RangeAlone(res.t + d, heap[params]) <= res.value

(* a search has ended after narrowing its bracket at least once *)
C11_Witness ==
    /\ mode = "maximize_scalar"
    /\ pc = "done"
    /\ Len(evals) >= 4
    /\ bracket # bounds
    /\ res.t > bounds[1] * TimeScale

(* phase 2 has been integrated with event_func from a state above ground *)
EventRunFromAbove ==
    /\ ~Sweeping
    /\ mode # "call"
    /\ results2 # NoValue
    /\ heap[system2].init.y > 0

(* C12, as specified: a run integrated with event_func from above the      *)
(* ground always ends with the event: the solver reports that the event    *)
(* fired, the last sample has y = 0 and no earlier sample is below 0.      *)
C12_EventAlwaysFires ==
    EventRunFromAbove =>
        /\ details2.status = "event"
        /\ iloc_last(results2).y = 0
        /\ \A j \in 1..Len(results2) : results2[j].state.y >= 0

(* C12: a run integrated with event_func from above the ground stops at    *)
(* the first time y reaches 0, if that happens before the run's t_end:     *)
(* then the event fired, the last sample has y = 0 and no earlier sample   *)
(* is below 0.  Otherwise the run goes on to t_end, the solver reports     *)
(* t_end, and every sample, the last one too, is above the ground.         *)
C12_EventStopsAtFirstCrossing ==
    EventRunFromAbove =>
        LET last == results2[Len(results2)]
        IN  /\ details2.status \in {"event", "t_end"}
            /\ details2.status = "event" =>
                  /\ last.state.y = 0
                  /\ last.t <= heap[system2].t_end
                  /\ \A j \in 1..Len(results2) : results2[j].state.y >= 0
            /\ details2.status = "t_end" =>
                  /\ last.t = heap[system2].t_end
                  /\ \A j \in 1..Len(results2) : results2[j].state.y > 0

(* phase 2 started above the ground and stopped on the ground before its   *)
(* t_end                                                                   *)
C12_Witness ==
    /\ EventRunFromAbove
    /\ details2.status = "event"
    /\ iloc_last(results2).y = 0
    /\ results2[1].state.y > 0
    /\ results2[Len(results2)].t < heap[system2].t_end

(* C13: a sweep of the empty array returns an empty SweepSeries and never  *)
(* makes a System or runs a simulation; a sweep of the one value v returns *)
(* exactly one entry, with key v and the value that composing, simulating  *)
(* and extracting v directly gives.                                        *)
C13_EmptyAndSingletonSweep ==
    Sweeping =>
        /\ input = << >> =>
              /\ pc \in {"for", "done"}
              /\ sweep = << >>
              /\ heap = << >>
              /\ results = NoValue
              /\ applied = << >>
        /\ (Len(input) = 1 /\ pc = "done") =>
              sweep = << <<input[1], OutcomeAlone(mode, input[1])>> >>

(* a sweep of one value with an effect has ended *)
C13_Witness ==
    /\ Sweeping
    /\ pc = "done"
    /\ Len(input) = 1
    /\ Len(sweep) = 1
    /\ sweep[1][1] = input[1]
    /\ sweep[1][2] > 0

(* C14: calc_total_infected returns the susceptible fraction at the start  *)
(* of the simulation (time 0, the System's init) minus the susceptible     *)
(* fraction at its end (time t_end, the last row), whatever the levers;    *)
(* the results it is given span 0..t_end, and the difference is the        *)
(* fraction that has left the susceptible for the infected or recovered.   *)
C14_TotalInfectedIsDropOfSusceptible ==
    (Sweeping /\ pc = "record") =>
        LET first == results[1]
            last == results[Len(results)]
        IN  /\ Len(results) = heap[system].t_end + 1
            /\ first = heap[system].init
            /\ outcome = first.s - last.s
            /\ outcome = (last.i + last.r) - (first.i + first.r)

(* an outcome has been extracted from a simulation of an immunized         *)
(* population in which some were infected                                  *)
C14_Witness ==
    /\ Sweeping
    /\ pc = "record"
    /\ fraction > 0
    /\ outcome > 0
    /\ results[1].s < chap11_make_system(beta, gamma).init.s

(* C15: add_immunization(system, f) on a System fresh from make_system,    *)
(* for every f from 0 to 1: the initial susceptible fraction is the fresh  *)
(* one minus f, the initial recovered fraction is the fresh one plus f,    *)
(* the infected fraction and the sum s + i + r are as they were, and       *)
(* nothing else of the System has changed.                                 *)
C15_ImmunizationMovesExactlyF ==
    (fn = "add_immunization" /\ 0 <= args[2] /\ args[2] <= PopScale) =>
        LET fresh == chap11_make_system(beta, gamma)
            sys == heap[args[1]]
            f == args[2]
        IN  /\ sys.init.s = fresh.init.s - f
            /\ sys.init.r = fresh.init.r + f
            /\ sys.init.i = fresh.init.i
            /\ sys.init.s + sys.init.i + sys.init.r
                   = fresh.init.s + fresh.init.i + fresh.init.r
            /\ sys = [fresh EXCEPT !.init = sys.init]

(* add_immunization has been called with a fraction strictly between 0    *)
(* and 1                                                                   *)
C15_Witness ==
    /\ fn = "add_immunization"
    /\ 0 < args[2]
    /\ args[2] < PopScale
    /\ heap[1].init.r = args[2]

(* C16, as specified: with A = 0, K = 0.2, M = 500, B = 0.01 the response  *)
(* at zero spending is zero, and add_hand_washing with no spending leaves  *)
(* beta unchanged.                                                         *)
C16_ZeroSpendingZeroResponse ==
    /\ (fn = "compute_factor" /\ args[1] = 0) => value = 0
    /\ (fn = "add_hand_washing" /\ args[2] = 0) => heap[args[1]].beta = beta

(* C16: with A = 0, K = 0.2, M = 500, B = 0.01 the response at zero        *)
(* spending is small but positive, between 0.001 and 0.002 (it is          *)
(* 0.2 / (1 + e^5)), and add_hand_washing with no spending lowers beta by  *)
(* that fraction: beta gets smaller, by no more than 0.2 percent.          *)
C16_ZeroSpendingSmallResponse ==
    /\ (fn = "compute_factor" /\ args[1] = 0) =>
          /\ FP \div 1000 <= value
          /\ value <= 2 * (FP \div 1000)
    /\ (fn = "add_hand_washing" /\ args[2] = 0) =>
          /\ heap[args[1]].beta < beta
          /\ heap[args[1]].beta * 1000 >= beta * 998

(* add_hand_washing has been called with no spending and has changed beta *)
C16_Witness ==
    /\ fn = "add_hand_washing"
    /\ args[2] = 0
    /\ heap[args[1]].beta # beta

(* the upper bound K = 0.2 of the campaign's curve, in units of 1/FP *)
MaxReduction == 2 * (FP \div 10)

(* C17: with A = 0, K = 0.2, M = 500, B = 0.01, compute_factor is between  *)
(* 0 and 0.2 for every spending from 0 up, within a thousandth of 0.2 from *)
(* a spending of 1200 on, and never smaller for a larger spending than for *)
(* a smaller one; add_hand_washing therefore never increases beta and      *)
(* never takes more than 20 percent off it (to the last fixed-point        *)
(* digit).                                                                 *)
C17_FactorMonotoneAndBounded ==
    /\ [](fn = "compute_factor" =>
             /\ 0 <= value
             /\ value <= MaxReduction
             /\ args[1] >= budget => value * 1000 >= MaxReduction * 999)
    /\ [](fn = "add_hand_washing" =>
             /\ heap[args[1]].beta <= beta
             /\ (heap[args[1]].beta + 1) * 10 >= beta * 8)
    /\ [][(fn = "compute_factor" /\ fn' = "compute_factor" /\ args[1] <= args'[1])
              => value <= value']_vars

(* compute_factor has been called past the midpoint of the curve, where    *)
(* the response is above half of K                                         *)
C17_Witness ==
    /\ fn = "compute_factor"
    /\ args[1] > 500
    /\ value * 2 > MaxReduction
    /\ value < MaxReduction

(* the fields of a System that phase 2 takes over from phase 1 *)
CarriedFields(sys) ==
    [mass |-> sys.mass, g |-> sys.g, rho |-> sys.rho, area |-> sys.area,
     C_d |-> sys.C_d, height |-> sys.height, length |-> sys.length,
     v_term |-> sys.v_term, angle |-> sys.angle]

(* C18: in run_two_phase(t_release, params) phase 1 is a run of a System   *)
(* with the spring constant of params, from params.t_0 to t_release.       *)
(* Phase 2 is a run of another System: it starts at the time of the last   *)
(* sample of phase 1, in the state of that sample, ends 10 seconds later   *)
(* and has k = 0; mass, g, rho, area, C_d, height and length are those of  *)
(* phase 1.  No sample of phase 1 is later than t_release and no sample    *)
(* of phase 2 is earlier, and the System of phase 1 keeps its k.           *)
C18_TwoSeparatePhases ==
    (~Sweeping /\ pc \in {"run_phase2", "concat", "x_final", "return"}) =>
        LET p == heap[params]
            s1 == heap[system1]
            s2 == heap[system2]
            last1 == results1[Len(results1)]
        IN  /\ s1.k = p.k
            /\ s1.t_0 = p.t_0
            /\ s1.t_end = t_release
            /\ results1[1].t = p.t_0
            /\ last1.t = t_release
            /\ \A j \in 1..Len(results1) : results1[j].t <= t_release
            /\ system2 # system1
            /\ s2.t_0 = last1.t
            /\ s2.init = last1.state
            /\ s2.t_end = s2.t_0 + 10 * TimeScale
            /\ s2.k = 0
            /\ CarriedFields(s2) = CarriedFields(s1)
            /\ CarriedFields(s1) = CarriedFields(make_system(p))
            /\ pc # "run_phase2" =>
                  /\ results2[1].t = s2.t_0
                  /\ results2[1].state = s2.init
                  /\ \A j \in 1..Len(results2) :
                        results2[j].t >= t_release /\ results2[j].t <= s2.t_end

(* both phases have run, phase 1 for some time with the spring on *)
C18_Witness ==
    /\ ~Sweeping
    /\ pc = "concat"
    /\ t_release > heap[params].t_0
    /\ heap[system1].k > 0
    /\ heap[system2].k = 0
    /\ results2[1].t = t_release
    /\ results2[Len(results2)].t > t_release

Abs(n) == IF n < 0 THEN -n ELSE n

(* F points along -L: no component of F has the sign of that component of  *)
(* L, and F is parallel to L up to the rounding of its two components      *)
PointsAgainst(F, L) ==
    /\ F.x * L.x <= 0
    /\ F.y * L.y <= 0
    /\ Abs(F.x * L.y - F.y * L.x) <= Abs(L.x) + Abs(L.y)

(* C19: spring_force(L, system) is the zero vector when the webbing is     *)
(* shorter than system.length; otherwise its magnitude is                  *)
(* k * (|L| - system.length), up to the rounding of |L| and of the         *)
(* components, and it points against L.                                    *)
(* With k = 0 it is the zero vector for every L.                           *)
C19_SpringForceOnlyWhenStretched ==
    fn = "spring_force" =>
        LET L == args[1]
            sys == args[2]
            extension == vector_mag(L) - sys.length
        IN  /\ extension < 0 => value = Vector(0, 0)
            /\ sys.k = 0 => value = Vector(0, 0)
            /\ extension >= 0 =>
                  /\ Abs(vector_mag(value) - sys.k * extension) * vector_mag(L)
                         <= sys.k * extension + 2 * vector_mag(L)
                  /\ PointsAgainst(value, L)

(* spring_force has been called on a stretched webbing with the spring on  *)
C19_Witness ==
    /\ fn = "spring_force"
    /\ vector_mag(args[1]) > args[2].length
    /\ args[2].k > 0
    /\ vector_mag(value) > 0

(* C20: with the C_d that make_system solves from v_term, the drag on a    *)
(* velocity of magnitude v_term has the magnitude of the weight, mass * g, *)
(* and points against the velocity, for every mass, g, rho, area and       *)
(* v_term tried (all positive).                                            *)
C20_DragBalancesWeightAtTerminalVelocity ==
    (fn = "drag_force" /\ vector_mag(args[1]) = args[2].v_term) =>
        LET V == args[1]
            sys == args[2]
        IN  /\ sys.mass > 0 /\ sys.g > 0 /\ sys.rho > 0 /\ sys.area > 0 /\ sys.v_term > 0
            /\ vector_mag(value) = sys.mass * sys.g
            /\ PointsAgainst(value, V)
            /\ value # Vector(0, 0)

(* drag_force has been called on a slanted velocity of magnitude v_term,   *)
(* in air and on an area other than 1                                      *)
C20_Witness ==
    /\ fn = "drag_force"
    /\ vector_mag(args[1]) = args[2].v_term
    /\ args[1].x # 0
    /\ args[1].y # 0
    /\ args[2].rho > 1
    /\ args[2].area > 1
    /\ vector_mag(value) > 0

====
